---- MODULE Spec2Model ----
(***************************************************************************)
(* State-machine model of src/server.js: the Express handlers of the USER  *)
(* API (products, register, login, orders), the authUser middleware, and   *)
(* the three mongoose collections they read and write.                     *)
(*                                                                         *)
(* Every handler is cut at its `await`s: the synchronous prefix of a       *)
(* handler is one action, and each awaited store operation (with the       *)
(* synchronous code that follows it) is one action, so that requests       *)
(* interleave exactly where Node's event loop lets them interleave.        *)
(* Every awaited store operation may throw (connection lost, ...).         *)
(***************************************************************************)
EXTENDS Integers, Sequences, FiniteSets, TLC

VARIABLES
    users,     \* the User collection
    orders,    \* the Order collection
    products,  \* the Product collection (no route writes it)
    now,       \* the clock jwt.sign and jwt.verify read, in days
    issued,    \* the tokens jwt.sign has returned (lines 98, 113)
    req,       \* per request in flight: its inputs, position, locals, responses
    regOK      \* the registrations answered 200: email, password, id

vars == <<users, orders, products, now, issued, req, regOK>>

(* ------------------------------ bounds -------------------------------- *)
\* orders stored or being created; distinct tokens issued; the last day
MaxOrders == 1
MaxTokens == 2
MaxTime == 8

\* expiresIn: '7d'; the clock of the model counts days
ExpiresIn == 7

Reqs == {"r1", "r2"}

(* --------------------------- JSON values ------------------------------ *)
\* A JSON value of a request body, tagged by its JavaScript type.
Num(n) == [t |-> "num", v |-> n]
Oid(n) == [t |-> "oid", v |-> n]
Undef == [t |-> "undef", v |-> 0]
Str == [t |-> "str", v |-> 0]
NaN == [t |-> "nan", v |-> 0]

\* Number(x) of line 128: a number is itself, undefined and a non-numeric
\* string are NaN.
ToNumber(x) == IF x.t = "num" THEN x ELSE NaN

Mul(a, b) == IF a.t = "num" /\ b.t = "num" THEN Num(a.v * b.v) ELSE NaN

Add(a, b) == IF a.t = "num" /\ b.t = "num" THEN Num(a.v + b.v) ELSE NaN

(* --------------------------- credentials ------------------------------ *)
JWT_SECRET == "secret"

\* bcrypt.hash(password, 10): a one-way digest, never the plaintext
BcryptHash(password) == <<"bcrypt", 10, password>>

\* a comparison of the plaintext with the stored digest
BcryptComparePlain(password, digest) == digest = password

\* bcrypt.compare(password, digest)
BcryptCompare(password, digest) == digest = BcryptHash(password)

NoToken == [t |-> "none", key |-> "", id |-> 0, exp |-> 0]
Garbage == [t |-> "junk", key |-> "", id |-> 0, exp |-> 0]

\* jwt.sign({ id }, key, { expiresIn: '7d' }) at time `at`
JwtSign(id, key, at) == [t |-> "jwt", key |-> key, id |-> id, exp |-> at + ExpiresIn]

\* verifications that leave out the signature check, or the expiry check
JwtVerifyNoSignature(token, key, at) == token.t = "jwt" /\ at < token.exp

JwtVerifyNoExpiry(token, key, at) == token.t = "jwt" /\ token.key = key

\* jwt.verify(token, key) at time `at` does not throw: the token is
\* well-formed, signed with key, and `at` is before its exp
JwtVerifies(token, key, at) == token.t = "jwt" /\ token.key = key /\ at < token.exp

(* ------------------------------ store --------------------------------- *)
\* userSchema: email is `unique: true`, a unique index of the collection;
\* an insert of an email that is present throws the duplicate-key error
DuplicateKey(email) == \E u \in users : u.email = email

\* the _id a collection gives the next document it stores
NewId(collection) == Cardinality(collection) + 1

FindUser(email) == {u \in users : u.email = email}

\* orderSchema validation of one element of items
ItemValid(it) == it.productId.t = "oid" /\ it.quantity.t = "num" /\ it.price.t = "num"

\* orderSchema validation of the document given to Order.create
OrderValid(userId, items, total) ==
    /\ userId # 0
    /\ total.t = "num"
    /\ \A i \in 1..Len(items) : ItemValid(items[i])

(* ----------------------------- requests ------------------------------- *)
NoHeader == [scheme |-> "", token |-> NoToken]
NoItems == [isArray |-> FALSE, elems |-> <<>>]

Idle == [kind |-> "idle", pc |-> "idle", name |-> "", email |-> "", password |-> "",
         auth |-> NoHeader, items |-> NoItems, pid |-> Undef, userId |-> 0,
         total |-> NaN, err |-> FALSE, res |-> <<>>]

\* res.status(s).json({ message: m }) and res.json(body)
Reply(status, message, body) == [status |-> status, message |-> message, body |-> body]

Free(r) == req[r].pc \in {"idle", "done"}

Finish(r, rec, reply) ==
    req' = [req EXCEPT ![r] = [rec EXCEPT !.pc = "done", !.res = Append(rec.res, reply)]]

Names == {"", "ana"}
Emails == {"", "a@x", "b@x"}
Passwords == {"", "p1", "p2"}

Init ==
    /\ users = {}
    /\ orders = {}
    /\ products \in SUBSET {[id |-> 101, name |-> "soap", price |-> 7]}
    /\ now = 0
    /\ issued = {}
    /\ req = [r \in Reqs |-> Idle]
    /\ regOK = {}

(* ---------------------- POST /api/auth/register ----------------------- *)
\* The awaits on bcrypt.hash and bcrypt.compare read and write nothing
\* shared; they are taken together with the store operation before them.
RegisterStart(r, names, emails, passwords) ==
    /\ Free(r)
    /\ \E name \in names, email \in emails, password \in passwords :
         LET rec == [Idle EXCEPT !.kind = "register", !.name = name,
                                 !.email = email, !.password = password]
         IN IF name = "" \/ email = "" \/ password = ""
            THEN Finish(r, rec, Reply(400, "Missing fields", <<>>))
            ELSE req' = [req EXCEPT ![r] = [rec EXCEPT !.pc = "reg_findOne"]]
    /\ UNCHANGED <<users, orders, products, now, issued, regOK>>

RegisterFindOne(r) ==
    /\ req[r].pc = "reg_findOne"
    /\ \/ Finish(r, [req[r] EXCEPT !.err = TRUE], Reply(500, "Server error", <<>>))
       \/ IF FindUser(req[r].email) # {}
          THEN Finish(r, req[r], Reply(409, "Email already registered", <<>>))
          ELSE req' = [req EXCEPT ![r].pc = "reg_create"]
    /\ UNCHANGED <<users, orders, products, now, issued, regOK>>

RegisterCreate(r) ==
    /\ req[r].pc = "reg_create"
    /\ \/ /\ Finish(r, [req[r] EXCEPT !.err = TRUE], Reply(500, "Server error", <<>>))
          /\ UNCHANGED <<users, issued, regOK>>
       \/ IF DuplicateKey(req[r].email)
          THEN /\ Finish(r, req[r], Reply(500, "Server error", <<>>))
               /\ UNCHANGED <<users, issued, regOK>>
          ELSE LET user == [id |-> NewId(users), name |-> req[r].name, email |-> req[r].email,
                            password |-> BcryptHash(req[r].password)]
                   token == JwtSign(user.id, JWT_SECRET, now)
               IN /\ users' = users \cup {user}
                  /\ issued' = issued \cup {token}
                  /\ regOK' = regOK \cup {[email |-> req[r].email,
                                            password |-> req[r].password, id |-> user.id]}
                  /\ Finish(r, req[r], Reply(200, "", <<token, user.id, user.name, user.email>>))
    /\ UNCHANGED <<orders, products, now>>

(* ------------------------ POST /api/auth/login ------------------------ *)
\* (the first guard only keeps the set of issued tokens within MaxTokens)
LoginStart(r, emails, passwords) ==
    /\ Free(r)
    /\ Cardinality(issued \cup {JwtSign(u.id, JWT_SECRET, now) : u \in users}) <= MaxTokens
    /\ \E email \in emails, password \in passwords :
         LET rec == [Idle EXCEPT !.kind = "login", !.email = email, !.password = password]
         IN IF email = "" \/ password = ""
            THEN Finish(r, rec, Reply(400, "Missing fields", <<>>))
            ELSE req' = [req EXCEPT ![r] = [rec EXCEPT !.pc = "login_findOne"]]
    /\ UNCHANGED <<users, orders, products, now, issued, regOK>>

\* a reply that tells an unknown email from a wrong password
UnknownEmailLeaky == Reply(404, "User not found", <<>>)

\* line 110: the reply when no User has the email
UnknownEmail == Reply(401, "Invalid credentials", <<>>)

\* line 112: the reply when the password does not match the digest
WrongPassword == Reply(401, "Invalid credentials", <<>>)

LoginFindOne(r) ==
    /\ req[r].pc = "login_findOne"
    /\ \/ /\ Finish(r, [req[r] EXCEPT !.err = TRUE], Reply(500, "Server error", <<>>))
          /\ UNCHANGED issued
       \/ IF FindUser(req[r].email) = {}
          THEN /\ Finish(r, req[r], UnknownEmail)
               /\ UNCHANGED issued
          ELSE LET user == CHOOSE u \in FindUser(req[r].email) : TRUE
                   token == JwtSign(user.id, JWT_SECRET, now)
               IN IF ~BcryptCompare(req[r].password, user.password)
                  THEN /\ Finish(r, req[r], WrongPassword)
                       /\ UNCHANGED issued
                  ELSE /\ issued' = issued \cup {token}
                       /\ Finish(r, req[r], Reply(200, "", <<token, user.id, user.name, user.email>>))
    /\ UNCHANGED <<users, orders, products, now, regOK>>

(* ----------------------------- authUser ------------------------------- *)
\* lines 56-57: the token of an Authorization header, NoToken when the
\* header is absent, is not 'Bearer ...', or carries an empty token
BearerToken(auth) == IF auth.scheme = "Bearer" /\ auth.token.t # "empty" THEN auth.token ELSE NoToken

\* a middleware that decodes the token without verifying it
AuthSkipsVerify(auth, at) ==
    IF BearerToken(auth) = NoToken
    THEN [pass |-> FALSE, message |-> "No token provided", userId |-> 0]
    ELSE [pass |-> TRUE, message |-> "", userId |-> BearerToken(auth).id]

\* the outcome of authUser at time `at`: the 401 it sends, or pass with req.userId
AuthUser(auth, at) ==
    LET token == BearerToken(auth)
    IN IF token = NoToken
       THEN [pass |-> FALSE, message |-> "No token provided", userId |-> 0]
       ELSE IF JwtVerifies(token, JWT_SECRET, at)
            THEN [pass |-> TRUE, message |-> "", userId |-> token.id]
            ELSE [pass |-> FALSE, message |-> "Invalid token", userId |-> 0]

(* -------------------------- POST /api/orders -------------------------- *)
RECURSIVE CatalogTotal(_)
\* a total repriced against the Product catalog (what line 128 does not do)
CatalogTotal(items) ==
    IF items = <<>> THEN Num(0)
    ELSE LET it == items[Len(items)]
             ps == {p \in products : Oid(p.id) = it.productId}
             price == IF ps = {} THEN ToNumber(it.price) ELSE Num((CHOOSE p \in ps : TRUE).price)
         IN Add(CatalogTotal(SubSeq(items, 1, Len(items) - 1)), Mul(price, ToNumber(it.quantity)))

RECURSIVE Total(_)
\* line 128: items.reduce((sum, it) => sum + Number(it.price) * Number(it.quantity), 0)
Total(items) ==
    IF items = <<>> THEN Num(0)
    ELSE LET it == items[Len(items)]
         IN Add(Total(SubSeq(items, 1, Len(items) - 1)),
                Mul(ToNumber(it.price), ToNumber(it.quantity)))

Item(productId, quantity, price) == [productId |-> productId, quantity |-> quantity, price |-> price]

Soap == Item(Oid(101), Num(2), Num(10))
Comb == Item(Oid(102), Num(1), Num(5))

\* the values of req.body.items the clients send
Bodies ==
    {NoItems} \cup
    {[isArray |-> TRUE, elems |-> e] : e \in
        {<<>>, <<Soap>>, <<Soap, Comb>>,
         <<Item(Undef, Num(1), Num(5))>>,
         <<Item(Oid(101), Undef, Num(5))>>,
         <<Soap, Item(Oid(101), Num(1), Undef)>>,
         <<Item(Str, Num(1), Num(5))>>,
         <<Item(Oid(101), Num(1), Str)>>}}

\* the Authorization headers the clients send: none, another scheme, an
\* empty bearer token, a malformed one, one signed with another key, and
\* the tokens this server has issued
IssuedHeaders == {[scheme |-> "Bearer", token |-> t] : t \in issued}

Headers ==
    {NoHeader, [scheme |-> "Basic", token |-> Garbage],
     [scheme |-> "Bearer", token |-> [NoToken EXCEPT !.t = "empty"]],
     [scheme |-> "Bearer", token |-> Garbage]}
    \cup {[scheme |-> "Bearer", token |-> JwtSign(id, "other", MaxTime)] : id \in {1, 9}}
    \cup IssuedHeaders

\* the requests between authUser's next() and the end of Order.create
Ordering == {r \in Reqs : req[r].kind = "order" /\ req[r].pc # "done"}

OrderStart(r, headers, bodies) ==
    /\ Free(r)
    /\ \E auth \in headers, items \in bodies :
         LET a == AuthUser(auth, now)
             rec == [Idle EXCEPT !.kind = "order", !.auth = auth, !.items = items]
         IN IF ~a.pass
            THEN Finish(r, rec, Reply(401, a.message, <<>>))
            ELSE IF ~items.isArray \/ Len(items.elems) = 0
                 THEN Finish(r, [rec EXCEPT !.userId = a.userId],
                             Reply(400, "Items required", <<>>))
                 ELSE /\ Cardinality(orders) + Cardinality(Ordering) < MaxOrders
                      /\ req' = [req EXCEPT ![r] = [rec EXCEPT !.userId = a.userId,
                                                               !.total = Total(items.elems),
                                                               !.pc = "order_create"]]
    /\ UNCHANGED <<users, orders, products, now, issued, regOK>>

OrderCreate(r) ==
    /\ req[r].pc = "order_create"
    /\ \/ /\ Finish(r, [req[r] EXCEPT !.err = TRUE], Reply(500, "Server error", <<>>))
          /\ UNCHANGED orders
       \/ IF ~OrderValid(req[r].userId, req[r].items.elems, req[r].total)
          THEN /\ Finish(r, req[r], Reply(500, "Server error", <<>>))
               /\ UNCHANGED orders
          ELSE LET order == [id |-> NewId(orders), userId |-> req[r].userId,
                             items |-> req[r].items.elems, total |-> req[r].total]
               IN /\ orders' = orders \cup {order}
                  /\ Finish(r, req[r], Reply(201, "", <<order>>))
    /\ UNCHANGED <<users, products, now, issued, regOK>>

(* ------------------------- GET /api/products -------------------------- *)
ProductsStart(r) ==
    /\ Free(r)
    /\ req' = [req EXCEPT ![r] = [Idle EXCEPT !.kind = "products", !.pc = "find"]]
    /\ UNCHANGED <<users, orders, products, now, issued, regOK>>

ProductsFind(r) ==
    /\ req[r].pc = "find"
    /\ \/ Finish(r, [req[r] EXCEPT !.err = TRUE], Reply(500, "Server error", <<>>))
       \/ Finish(r, req[r], Reply(200, "", <<products>>))
    /\ UNCHANGED <<users, orders, products, now, issued, regOK>>

(* ----------------------- GET /api/products/:id ------------------------ *)
\* the :id path parameters the clients send: well-formed identifiers
\* (stored or not) and a malformed one
Params == {Oid(101), Oid(102), Str}

ProductStart(r) ==
    /\ Free(r)
    /\ \E id \in Params :
         req' = [req EXCEPT ![r] = [Idle EXCEPT !.kind = "product", !.pid = id,
                                                !.pc = "findById"]]
    /\ UNCHANGED <<users, orders, products, now, issued, regOK>>

\* Product.findById(id) rejects with a CastError when id is no ObjectId
CastError(id) == id.t # "oid"

ProductFindById(r) ==
    /\ req[r].pc = "findById"
    /\ \/ Finish(r, [req[r] EXCEPT !.err = TRUE], Reply(400, "Invalid ID", <<>>))
       \/ IF CastError(req[r].pid)
          THEN Finish(r, req[r], Reply(400, "Invalid ID", <<>>))
          ELSE LET ps == {p \in products : Oid(p.id) = req[r].pid}
               IN IF ps = {}
                  THEN Finish(r, req[r], Reply(404, "Product not found", <<>>))
                  ELSE Finish(r, req[r], Reply(200, "", <<CHOOSE p \in ps : TRUE>>))
    /\ UNCHANGED <<users, orders, products, now, issued, regOK>>

(* ------------------------------- time --------------------------------- *)
Tick ==
    /\ now < MaxTime
    /\ now' = now + 1
    /\ UNCHANGED <<users, orders, products, issued, req, regOK>>

(* --------------------------- specifications --------------------------- *)
\* register and login, two requests in flight
NextAuth ==
    \/ \E r \in Reqs : RegisterStart(r, Names, Emails, Passwords)
    \/ \E r \in Reqs : RegisterFindOne(r)
    \/ \E r \in Reqs : RegisterCreate(r)
    \/ \E r \in Reqs : LoginStart(r, Emails, Passwords)
    \/ \E r \in Reqs : LoginFindOne(r)

SpecAuth == Init /\ [][NextAuth]_vars

\* orders placed while users register and log in and time passes
NextOrders ==
    \/ RegisterStart("r1", {"ana"}, {"a@x", "b@x"}, {"p1"})
    \/ RegisterFindOne("r1")
    \/ RegisterCreate("r1")
    \/ LoginStart("r1", {"a@x", "b@x"}, {"p1"})
    \/ LoginFindOne("r1")
    \/ OrderStart("r2", Headers, Bodies)
    \/ OrderCreate("r2")

SpecOrders == Init /\ [][NextOrders]_vars

\* tokens presented to authUser while users register and log in and time passes
NextTokens ==
    \/ RegisterStart("r1", {"ana"}, {"a@x"}, {"p1"})
    \/ RegisterFindOne("r1")
    \/ RegisterCreate("r1")
    \/ LoginStart("r1", {"a@x"}, {"p1"})
    \/ LoginFindOne("r1")
    \/ OrderStart("r2", Headers, {[isArray |-> TRUE, elems |-> <<Soap>>]})
    \/ OrderCreate("r2")
    \/ Tick

SpecTokens == Init /\ [][NextTokens]_vars

\* the product routes, two requests in flight
NextProducts ==
    \/ \E r \in Reqs : ProductsStart(r)
    \/ \E r \in Reqs : ProductsFind(r)
    \/ \E r \in Reqs : ProductStart(r)
    \/ \E r \in Reqs : ProductFindById(r)

SpecProducts == Init /\ [][NextProducts]_vars
\* the whole API
Next ==
    \/ \E r \in Reqs : RegisterStart(r, Names, Emails, Passwords)
    \/ \E r \in Reqs : RegisterFindOne(r)
    \/ \E r \in Reqs : RegisterCreate(r)
    \/ \E r \in Reqs : LoginStart(r, Emails, Passwords)
    \/ \E r \in Reqs : LoginFindOne(r)
    \/ \E r \in Reqs : OrderStart(r, Headers, Bodies)
    \/ \E r \in Reqs : OrderCreate(r)
    \/ \E r \in Reqs : ProductsStart(r)
    \/ \E r \in Reqs : ProductsFind(r)
    \/ \E r \in Reqs : ProductStart(r)
    \/ \E r \in Reqs : ProductFindById(r)
    \/ Tick

Spec == Init /\ [][Next]_vars

(* ============================ properties ============================== *)
Done(r) == req[r].pc = "done"

\* the one response of a finished request
Res(r) == req[r].res[1]

\* this step is the synchronous prefix of a POST /api/orders in slot r
StartsOrder(r) == Free(r) /\ req'[r].kind = "order" /\ req'[r] # req[r]

\* this step is the User.findOne of a login in slot r, and what follows it
LooksUp(r) == req[r].pc = "login_findOne" /\ req'[r].pc = "done"

(* ------------------------------- C1 ----------------------------------- *)
\* C1: no two User records share an email, and a register request whose
\* email is already in the store (and whose store operations do not fail)
\* is answered 409 and creates no record.
C1_UniqueEmailAndConflict ==
    /\ \A u, v \in users : u.email = v.email => u = v
    /\ \A r \in Reqs :
         (/\ req[r].kind = "register" /\ Done(r) /\ ~req[r].err
          /\ req[r].name # "" /\ req[r].email # "" /\ req[r].password # ""
          /\ \E u \in users : u.email = req[r].email
          /\ Res(r).status # 200)
         => Res(r).status = 409

(* ------------------------------- C2 ----------------------------------- *)
\* what authUser must answer to a header at the present time: nothing
\* ("") when the header carries a token that verifies
Rejection(auth) ==
    IF auth.scheme # "Bearer" \/ auth.token.t \in {"none", "empty"} THEN "No token provided"
    ELSE IF auth.token.t # "jwt" \/ auth.token.key # JWT_SECRET \/ now >= auth.token.exp
         THEN "Invalid token"
         ELSE ""

\* C2: a POST /api/orders whose header the middleware rejects (absent, not
\* 'Bearer <token>', or a token failing verification) is answered 401 at
\* once, the handler body does not run and the Orders are unchanged.
C2_RejectedCreatesNoOrder ==
    [][\A r \in Reqs :
         (StartsOrder(r) /\ Rejection(req'[r].auth) # "")
         => /\ req'[r].pc = "done"
            /\ req'[r].res = <<Reply(401, Rejection(req'[r].auth), <<>>)>>
            /\ req'[r].userId = 0
            /\ orders' = orders]_vars

C2_Witness ==
    \E r \in Reqs :
        /\ req[r].kind = "order" /\ Done(r)
        /\ req[r].auth = NoHeader
        /\ req[r].items.elems = <<Soap>>
        /\ Res(r) = Reply(401, "No token provided", <<>>)
        /\ orders = {}
        /\ issued # {}

(* ------------------------------- C3 ----------------------------------- *)
RECURSIVE LineSum(_)
\* price * quantity summed over the items, first to last
LineSum(items) ==
    IF items = <<>> THEN 0
    ELSE items[1].price.v * items[1].quantity.v + LineSum(Tail(items))

\* C3: the total returned with a 201, and stored, is the sum over the
\* submitted items of the client's price times quantity.
C3_TotalIsLineSum ==
    /\ \A o \in orders : o.total = Num(LineSum(o.items))
    /\ \A r \in Reqs :
         (req[r].kind = "order" /\ Done(r) /\ Res(r).status = 201)
         => /\ Res(r).body[1].total = Num(LineSum(req[r].items.elems))
            /\ Res(r).body[1].items = req[r].items.elems
            /\ Res(r).body[1] \in orders

C3_Witness ==
    \E r \in Reqs :
        /\ req[r].kind = "order" /\ Done(r) /\ Res(r).status = 201
        /\ req[r].items.elems = <<Soap, Comb>>
        /\ Res(r).body[1].total = Num(25)
        /\ \E p \in products : Oid(p.id) = Soap.productId /\ Num(p.price) # Soap.price

(* ------------------------------- C4 ----------------------------------- *)
\* the registrations answered 200 that a login's credentials match
Registered(r) == {g \in regOK : g.email = req[r].email /\ g.password = req[r].password}

\* C4 as claimed: a login with the credentials of a registration answered
\* 200 is answered 200 with a token of that registration's id.
C4_LoginAlwaysSucceeds ==
    [][\A r \in Reqs : \A g \in Registered(r) :
         LooksUp(r)
         => /\ req'[r].res[1].status = 200
            /\ req'[r].res[1].body[1].id = g.id]_vars

\* C4 as amended: such a login is answered 200 with a token of that id (and
\* that id in the user summary), unless its User.findOne throws, and then
\* it is answered 500; it is never answered 400 or 401.
C4_LoginSucceedsUnlessStoreFails ==
    [][\A r \in Reqs : \A g \in Registered(r) :
         LooksUp(r)
         => IF req'[r].err
            THEN req'[r].res = <<Reply(500, "Server error", <<>>)>>
            ELSE /\ Len(req'[r].res) = 1
                 /\ req'[r].res[1].status = 200
                 /\ req'[r].res[1].body[1].t = "jwt"
                 /\ req'[r].res[1].body[1].key = JWT_SECRET
                 /\ req'[r].res[1].body[1].id = g.id
                 /\ req'[r].res[1].body[2] = g.id]_vars

C4_Witness ==
    \E r, q \in Reqs :
        /\ r # q
        /\ req[q].kind = "login" /\ Done(q) /\ Res(q).status = 401
        /\ req[r].kind = "login" /\ Done(r) /\ Res(r).status = 200
        /\ \E g \in Registered(r) : Res(r).body[1].id = g.id /\ g.id = 2

(* ------------------------------- C5 ----------------------------------- *)
\* C5: a token is issued with an expiry 7 days ahead; presented before its
\* expiry it passes authUser with req.userId its id, presented after its
\* expiry it is answered 401 'Invalid token'; a token signed with another
\* key is never accepted.
C5_TokenLifetime ==
    [][/\ \A t \in issued' \ issued :
            t.key = JWT_SECRET /\ t.exp = now + 7 /\ \E u \in users' : u.id = t.id
       /\ \A r \in Reqs :
            (StartsOrder(r) /\ req'[r].auth.scheme = "Bearer" /\ req'[r].auth.token.t = "jwt")
            => LET t == req'[r].auth.token
               IN /\ (t \in issued /\ now < t.exp)
                     => (req'[r].userId = t.id /\ req'[r].pc = "order_create")
                  /\ (t \in issued /\ now > t.exp)
                     => req'[r].res = <<Reply(401, "Invalid token", <<>>)>>
                  /\ (t.key # JWT_SECRET)
                     => req'[r].res = <<Reply(401, "Invalid token", <<>>)>>]_vars

C5_Witness ==
    \E r \in Reqs :
        /\ req[r].kind = "order" /\ Done(r)
        /\ req[r].auth.token \in issued
        /\ now > req[r].auth.token.exp
        /\ Res(r) = Reply(401, "Invalid token", <<>>)
        /\ \E o \in orders : o.userId = req[r].auth.token.id

(* ------------------------------- C6 ----------------------------------- *)
\* C6: every stored Order's userId is the id of a token this server issued
\* and of a User in the store, and it is the id of the token of the request
\* that created the order.
C6_OrderOwnerAuthenticated ==
    /\ \A o \in orders :
         /\ \E u \in users : u.id = o.userId
         /\ \E t \in issued : t.id = o.userId
    /\ \A r \in Reqs :
         (req[r].kind = "order" /\ (req[r].pc = "order_create" \/ Res(r).status = 201))
         => /\ req[r].auth.token \in issued
            /\ req[r].userId = req[r].auth.token.id
            /\ Done(r) => Res(r).body[1].userId = req[r].auth.token.id

C6_Witness ==
    /\ \E o \in orders : o.userId = 2
    /\ \E r \in Reqs : req[r].kind = "order" /\ Done(r) /\ Res(r).status = 201

(* ------------------------------- C7 ----------------------------------- *)
\* a finished login with both fields present whose credentials fail
FailedLogin(r) ==
    /\ req[r].kind = "login" /\ Done(r)
    /\ req[r].email # "" /\ req[r].password # ""
    /\ \A u \in users : u.email = req[r].email => u.password # BcryptHash(req[r].password)

AccountExists(r) == \E u \in users : u.email = req[r].email

C8_ProductByIdStatus ==
    \A r \in Reqs :
        (req[r].kind = "product" /\ Done(r))
        => LET ps == {p \in products : Oid(p.id) = req[r].pid}
           IN /\ req[r].pid.t # "oid" => Res(r).status = 400
              /\ (req[r].pid.t = "oid" /\ ps = {}) => Res(r).status = 404
              /\ (req[r].pid.t = "oid" /\ ps # {})
                 => (Res(r).status = 200 /\ Res(r).body[1] \in ps)
              /\ Res(r).status = 400 => req[r].pid.t # "oid"

(* ------------------------------- C9 ----------------------------------- *)
\* C9: a request whose store operation failed got exactly one response, of
\* status 500.
C9_StoreErrorIs500 ==
    \A r \in Reqs :
        (Done(r) /\ req[r].err) => (Len(req[r].res) = 1 /\ Res(r).status = 500)

(* ------------------------------- C10 ---------------------------------- *)
\* C10: an authenticated order whose non-empty items hold an entry with a
\* required field absent or mistyped is answered 400 and creates no Order.
C10_InvalidItemIs400 ==
    \A r \in Reqs :
        (/\ req[r].kind = "order" /\ Done(r) /\ ~req[r].err
         /\ req[r].userId # 0
         /\ req[r].items.isArray
         /\ \E i \in 1..Len(req[r].items.elems) :
              \/ req[r].items.elems[i].productId.t # "oid"
              \/ req[r].items.elems[i].quantity.t # "num"
              \/ req[r].items.elems[i].price.t # "num")
        => Res(r).status = 400

====
